---- MODULE Spec2Model ----
(***************************************************************************)
(* KeyGuard Vault Keeper: the encrypted local vault.                       *)
(*                                                                         *)
(* The model covers the session/auth controller (AuthContext.tsx), the     *)
(* localStorage backend it drives (class LocalStorage), the cipher and     *)
(* verification helpers (encryption.ts), the credential list held by the   *)
(* PasswordProvider (PasswordContext.tsx) and the password recovery form   *)
(* (PasswordRecovery.tsx).                                                 *)
(***************************************************************************)
EXTENDS Integers, Sequences, FiniteSets, TLC

VARIABLES
    ls,                 \* window.localStorage: the three vault_* items
    masterPassword,     \* LocalStorage.masterPassword (string | null)
    isAuthenticated,    \* AuthProvider state
    passwords,          \* PasswordProvider state: the in-memory credential list
    nextId,             \* number of ids crypto.randomUUID() has handed out
    showRecovery,       \* Login state: the PasswordRecovery form is mounted
    step,               \* PasswordRecovery state
    answers,            \* PasswordRecovery state (a JS array, possibly sparse)
    error,              \* PasswordRecovery state
    newPassword,        \* PasswordRecovery state
    confirmPassword,    \* PasswordRecovery state
    securityQuestions,  \* PasswordRecovery state: questions loaded on mount
    last,               \* observation: the call that just returned, its result
    prev,               \* observation: the call before the last logout(), kept
                        \* while only login() calls have followed that logout()
    db,                 \* SQLiteStorage.db: the in-memory sql.js database
    idb,                \* IndexedDB: the database file stored under DB_KEY
    syncStorage,        \* localStorage: sync_db_data and sync_db_timestamp
    backup,             \* the file written by the last export, with what the
                        \* getters returned at that moment
    pending,            \* PasswordProvider (async): the credential mutations
                        \* in flight, one per slot
    initialized,        \* SQLiteStorage.initialized
    initializationPromise,  \* SQLiteStorage.initializationPromise: "pending",
                        \* "resolved" or "rejected"
    initCalls,          \* number of initDatabase() runs of this service instance
    ensuring,           \* the callers of ensureDbReady() that are awaiting
    isReady,            \* StorageProvider state
    storageError,       \* StorageProvider: the "Storage Error" toast was shown
    lastSyncTimestamp,  \* SQLiteStorage.lastSyncTimestamp against the stored
                        \* sync_db_timestamp: "behind" (smaller) or "current"
    idbRequests,        \* IndexedDB: the put requests made and not yet served
    autoLockEnabled     \* SecuritySettings state

authVars == <<ls, masterPassword, isAuthenticated, passwords, nextId>>
recoveryVars == <<showRecovery, step, answers, error, newPassword,
                  confirmPassword, securityQuestions>>
startupVars == <<initialized, initializationPromise, initCalls, ensuring,
                 isReady, storageError>>
pageVars == <<idbRequests, autoLockEnabled>>
sqliteVars == <<db, idb, syncStorage, lastSyncTimestamp, backup, pending,
                startupVars, pageVars>>
vars == <<ls, masterPassword, isAuthenticated, passwords, nextId,
          showRecovery, step, answers, error, newPassword,
          confirmPassword, securityQuestions, last, prev,
          db, idb, syncStorage, backup, pending,
          initialized, initializationPromise, initCalls, ensuring,
          isReady, storageError, lastSyncTimestamp, idbRequests,
          autoLockEnabled>>

(***************************************************************************)
(* Bounds and input sets                                                   *)
(***************************************************************************)
\* how many credentials addPassword may create in one run
MaxAdds == 2
\* how many security questions an enrolment stores
MaxQuestions == 2

\* JS null for string-valued state (masterPassword, error)
NULL == "null"
\* localStorage.getItem of a key that is not stored
NoItem == [kind |-> "null"]

Passwords == {"Secret123!", "Hunter2hunter"}
Titles == {"mail", "bank"}

\* what the user types into the recovery form's password fields
TypedPasswords == {"Hunter2hunter", "short"}
\* answers typed at recovery, as characters
TypedAnswers == {<<"A">>, <<" ", "b">>, <<" ">>}
\* enrolled question lists: every answer "a", or "a" and "B " in turn
QuestionLists ==
    {[i \in 1..MaxQuestions |-> [question |-> i, answer |-> <<"a">>]],
     [i \in 1..MaxQuestions |->
        [question |-> i, answer |-> IF i % 2 = 1 THEN <<"a">> ELSE <<"B", " ">>]]}
\* PasswordRecovery.handlePasswordSubmit: newPassword.length < 8 is refused
MinPasswordLength == 8

(***************************************************************************)
(* encryption.ts                                                           *)
(***************************************************************************)
\* CryptoJS.PBKDF2(password, salt, ...): deterministic, one value per (password, salt)
PBKDF2(password, salt) == [kind |-> "pbkdf2", salt |-> salt, password |-> password]

\* faulty variant: the password itself is stored where its hash belongs
plainMasterPassword(password) == [kind |-> "text", salt |-> "", password |-> password]

hashMasterPassword(password) == PBKDF2(password, "vault-keeper-verification-salt")

\* faulty variant: a verification that accepts every password
verifyAnyPassword(password, storedHash) == TRUE

verifyMasterPassword(password, storedHash) == hashMasterPassword(password) = storedHash

encryptData(data, password) ==
    [kind |-> "aes", key |-> PBKDF2(password, "vault-keeper-salt"), data |-> data]

\* The outcomes of decryptData.  With the key the blob was made with, the
\* plaintext.  With another key AES yields random bytes: toString(Utf8) throws
\* on malformed UTF-8, or the padding check leaves no bytes and the result is
\* the empty string.
decryptData(encryptedData, password) ==
    IF encryptedData.key = PBKDF2(password, "vault-keeper-salt")
    THEN {[threw |-> FALSE, data |-> encryptedData.data]}
    ELSE {[threw |-> TRUE, data |-> [kind |-> "text", value |-> ""]],
          [threw |-> FALSE, data |-> [kind |-> "text", value |-> ""]]}

\* JSON.stringify / JSON.parse on the values the vault serialises
JSONstringify(value) == [kind |-> "json", value |-> value]

JSONparse(text) ==
    IF text.kind = "json"
    THEN [threw |-> FALSE, value |-> text.value]
    ELSE [threw |-> TRUE, value |-> <<>>]

(***************************************************************************)
(* class LocalStorage.  `quota` is the set of keys whose setItem throws    *)
(* (QuotaExceededError) during the call.                                   *)
(***************************************************************************)
hasMasterPasswordSetup(store) == store.vault_master_hash # NoItem

hasSecurityQuestions(store) == store.vault_security_questions # NoItem

getMasterPasswordHash(store) == store.vault_master_hash

\* the possible results of getPasswords(): [threw, value]
getPasswords(store, mp) ==
    IF mp = NULL
    THEN {[threw |-> TRUE, value |-> <<>>]}
    ELSE IF store.vault_passwords = NoItem
    THEN {[threw |-> FALSE, value |-> <<>>]}
    ELSE {IF d.threw \/ JSONparse(d.data).threw
          THEN [threw |-> FALSE, value |-> <<>>]
          ELSE [threw |-> FALSE, value |-> JSONparse(d.data).value]
            : d \in decryptData(store.vault_passwords, mp)}

\* savePasswords(): [threw, ret, store]
savePasswords(store, mp, list, quota) ==
    IF mp = NULL
    THEN [threw |-> TRUE, ret |-> FALSE, store |-> store]
    ELSE IF "vault_passwords" \in quota
    THEN [threw |-> FALSE, ret |-> FALSE, store |-> store]
    ELSE [threw |-> FALSE, ret |-> TRUE,
          store |-> [store EXCEPT !.vault_passwords =
                        encryptData(JSONstringify(list), mp)]]

\* storeMasterPasswordHash(): [threw, store]
storeMasterPasswordHash(store, hash, quota) ==
    IF "vault_master_hash" \in quota
    THEN [threw |-> TRUE, store |-> store]
    ELSE [threw |-> FALSE, store |-> [store EXCEPT !.vault_master_hash = hash]]

\* saveSecurityQuestions(): [ret, store]
saveSecurityQuestions(store, questions, quota) ==
    IF "vault_security_questions" \in quota
    THEN [ret |-> FALSE, store |-> store]
    ELSE [ret |-> TRUE,
          store |-> [store EXCEPT !.vault_security_questions =
                        JSONstringify(questions)]]

\* getSecurityQuestions(): [kind |-> "list", value |-> the list], or NoItem for null
getSecurityQuestions(store) ==
    IF store.vault_security_questions = NoItem
    THEN NoItem
    ELSE IF JSONparse(store.vault_security_questions).threw
    THEN NoItem
    ELSE [kind |-> "list", value |-> JSONparse(store.vault_security_questions).value]

\* faulty variant: the security questions survive the reset
resetVaultKeepingQuestions(store) ==
    [vault_master_hash |-> NoItem,
     vault_passwords |-> NoItem,
     vault_security_questions |-> store.vault_security_questions]

resetVaultStore(store) ==
    [vault_master_hash |-> NoItem,
     vault_passwords |-> NoItem,
     vault_security_questions |-> NoItem]

\* LocalStorage.resetVault of storage.ts: removeItem(this.MASTER_PASSWORD_KEY),
\* a field the class does not declare, so the item named "undefined" is
\* removed; then removeItem(PASSWORDS_KEY).  The class has no questions item.
resetVaultStoreOfStorageTs(store) ==
    [store EXCEPT !.vault_passwords = NoItem]

(***************************************************************************)
(* AuthContext.tsx.  Each operation maps the session                       *)
(* [ls, masterPassword, isAuthenticated] to the set of its possible        *)
(* outcomes [ret, ls, masterPassword, isAuthenticated].                    *)
(***************************************************************************)
Session == [ls |-> ls, masterPassword |-> masterPassword,
            isAuthenticated |-> isAuthenticated]

Outcome(ret, store, mp, auth) ==
    [ret |-> ret, ls |-> store, masterPassword |-> mp, isAuthenticated |-> auth]

\* the catch block, or an early return false: nothing was assigned
Failed(S) == Outcome(FALSE, S.ls, S.masterPassword, S.isAuthenticated)

\* faulty variant: the in-memory master password is not kept after setup
setupMasterPasswordForgettingKey(S, password, quota) ==
    LET stored == storeMasterPasswordHash(S.ls, hashMasterPassword(password), quota)
        saved == savePasswords(stored.store, password, <<>>, quota)
    IN  IF stored.threw
        THEN {Failed(S)}
        ELSE {Outcome(TRUE, saved.store, NULL, TRUE)}

setupMasterPassword(S, password, quota) ==
    LET stored == storeMasterPasswordHash(S.ls, hashMasterPassword(password), quota)
        saved == savePasswords(stored.store, password, <<>>, quota)
    IN  IF stored.threw
        THEN {Failed(S)}
        ELSE {Outcome(TRUE, saved.store, password, TRUE)}

setupSecurityQuestions(S, questions, quota) ==
    LET saved == saveSecurityQuestions(S.ls, questions, quota)
    IN  {Outcome(saved.ret, saved.store, S.masterPassword, S.isAuthenticated)}

\* faulty variant: the session is opened without handing the password to
\* the storage service
loginWithoutSetMasterPassword(S, password) ==
    LET storedHash == getMasterPasswordHash(S.ls)
    IN  IF storedHash = NoItem
        THEN {Failed(S)}
        ELSE IF verifyMasterPassword(password, storedHash)
        THEN {Outcome(TRUE, S.ls, S.masterPassword, TRUE)}
        ELSE {Failed(S)}

login(S, password) ==
    LET storedHash == getMasterPasswordHash(S.ls)
    IN  IF storedHash = NoItem
        THEN {Failed(S)}
        ELSE IF verifyMasterPassword(password, storedHash)
        THEN {Outcome(TRUE, S.ls, password, TRUE)}
        ELSE {Failed(S)}

\* faulty variant: the stored hash is not looked for before verifying
loginToastUnchecked(S, password) ==
    IF verifyMasterPassword(password, getMasterPasswordHash(S.ls))
    THEN "Welcome back to KeyGuard Vault Keeper!"
    ELSE "Incorrect master password. Please try again."

\* the description of the toast login() shows
loginToast(S, password) ==
    LET storedHash == getMasterPasswordHash(S.ls)
    IN  IF storedHash = NoItem
        THEN "No vault found. Please set up a master password first."
        ELSE IF verifyMasterPassword(password, storedHash)
        THEN "Welcome back to KeyGuard Vault Keeper!"
        ELSE "Incorrect master password. Please try again."

\* faulty variant: the session flag is dropped, the password is kept in memory
logoutKeepingPassword(S) == {Outcome(TRUE, S.ls, S.masterPassword, FALSE)}

logout(S) == {Outcome(TRUE, S.ls, NULL, FALSE)}

resetVault(S) == {Outcome(TRUE, resetVaultStore(S.ls), NULL, FALSE)}

\* faulty variant: the collection is re-saved before setMasterPassword(new),
\* so it stays encrypted under the master password of the session
updateMasterPasswordUnderOldKey(S, currentPassword, newPwd, quota) ==
    LET storedHash == getMasterPasswordHash(S.ls)
    IN  IF storedHash = NoItem
        THEN {Failed(S)}
        ELSE IF ~verifyMasterPassword(currentPassword, storedHash)
        THEN {Failed(S)}
        ELSE {LET stored == storeMasterPasswordHash(S.ls, hashMasterPassword(newPwd), quota)
                  saved == savePasswords(stored.store, S.masterPassword, got.value, quota)
              IN  IF got.threw \/ stored.threw
                  THEN Failed(S)
                  ELSE Outcome(TRUE, saved.store, newPwd, S.isAuthenticated)
                : got \in getPasswords(S.ls, S.masterPassword)}

\* faulty variant: the current password is not verified
updateMasterPasswordUnverified(S, currentPassword, newPwd, quota) ==
    LET storedHash == getMasterPasswordHash(S.ls)
    IN  IF storedHash = NoItem
        THEN {Failed(S)}
        ELSE {LET stored == storeMasterPasswordHash(S.ls, hashMasterPassword(newPwd), quota)
                  saved == savePasswords(stored.store, newPwd, got.value, quota)
              IN  IF got.threw \/ stored.threw
                  THEN Failed(S)
                  ELSE Outcome(TRUE, saved.store, newPwd, S.isAuthenticated)
                : got \in getPasswords(S.ls, S.masterPassword)}

updateMasterPassword(S, currentPassword, newPwd, quota) ==
    LET storedHash == getMasterPasswordHash(S.ls)
    IN  IF storedHash = NoItem
        THEN {Failed(S)}
        ELSE IF ~verifyMasterPassword(currentPassword, storedHash)
        THEN {Failed(S)}
        ELSE {LET stored == storeMasterPasswordHash(S.ls, hashMasterPassword(newPwd), quota)
                  saved == savePasswords(stored.store, newPwd, got.value, quota)
              IN  IF got.threw \/ stored.threw
                  THEN Failed(S)
                  ELSE Outcome(TRUE, saved.store, newPwd, S.isAuthenticated)
                : got \in getPasswords(S.ls, S.masterPassword)}

\* faulty variant: the session is opened but the new hash is not stored
resetPasswordKeepingHash(S, newPwd, quota) ==
    {Outcome(TRUE, S.ls, newPwd, TRUE)}

\* faulty variant: a reset whose credential blob cannot be written reports
\* failure after the new hash has been stored
resetPasswordFailingAfterStore(S, newPwd, quota) ==
    LET stored == storeMasterPasswordHash(S.ls, hashMasterPassword(newPwd), quota)
    IN  IF stored.threw
        THEN {Failed(S)}
        ELSE IF "vault_passwords" \in quota
        THEN {Outcome(FALSE, stored.store, newPwd, S.isAuthenticated)}
        ELSE {Outcome(TRUE, stored.store, newPwd, TRUE)}

resetPasswordWithSecurityQuestions(S, newPwd, quota) ==
    LET stored == storeMasterPasswordHash(S.ls, hashMasterPassword(newPwd), quota)
    IN  IF stored.threw
        THEN {Failed(S)}
        ELSE {LET saved == savePasswords(stored.store, newPwd, <<>>, quota)
              IN  Outcome(TRUE,
                          IF got.threw THEN saved.store ELSE stored.store,
                          newPwd, TRUE)
                : got \in getPasswords(stored.store, newPwd)}

(***************************************************************************)
(* PasswordContext.tsx                                                     *)
(***************************************************************************)
\* The load effect of PasswordProvider, run when isAuthenticated changed:
\* the lists the in-memory state can hold afterwards.
LoadEffect(authBefore, authAfter, store, mp, current) ==
    IF authAfter = authBefore
    THEN {current}
    ELSE IF authAfter
    THEN {IF got.threw THEN current ELSE got.value : got \in getPasswords(store, mp)}
    ELSE {<<>>}

\* crypto.randomUUID(): an id never handed out before
\* faulty variant: every new entry gets the same id
NewEntryWithFixedId(title) == [id |-> 1, title |-> title]

NewEntry(title) == [id |-> nextId + 1, title |-> title]

IndexOfId(list, id) ==
    IF \E i \in 1..Len(list) : list[i].id = id
    THEN CHOOSE i \in 1..Len(list) :
            list[i].id = id /\ \A j \in 1..(i - 1) : list[j].id # id
    ELSE 0

RemoveId(list, id) == SelectSeq(list, LAMBDA e : e.id # id)

(***************************************************************************)
(* Strings the recovery form compares: sequences of characters             *)
(***************************************************************************)
toLowerCaseChar(c) ==
    CASE c = "A" -> "a"
      [] c = "B" -> "b"
      [] OTHER -> c

toLowerCase(s) == [i \in 1..Len(s) |-> toLowerCaseChar(s[i])]

RECURSIVE trimStart(_)
trimStart(s) ==
    IF Len(s) > 0 /\ Head(s) = " " THEN trimStart(Tail(s)) ELSE s

RECURSIVE trimEnd(_)
trimEnd(s) ==
    IF Len(s) > 0 /\ s[Len(s)] = " "
    THEN trimEnd(SubSeq(s, 1, Len(s) - 1))
    ELSE s

trim(s) == trimEnd(trimStart(s))

\* elements of a JS array of strings: a string, undefined, or a hole
Str(chars) == [kind |-> "string", chars |-> chars]
Undefined == [kind |-> "undefined"]
Hole == [kind |-> "hole"]

\* [...answers]: the iterator yields undefined for a hole
Spread(arr) == [i \in 1..Len(arr) |-> IF arr[i] = Hole THEN Undefined ELSE arr[i]]

\* arr[index] = value (index counted from 1), growing the array with holes
AssignIndex(arr, index, value) ==
    [i \in 1..(IF index > Len(arr) THEN index ELSE Len(arr)) |->
        IF i = index THEN value
        ELSE IF i <= Len(arr) THEN arr[i]
        ELSE Hole]

\* answers.some(a => !a.trim()), scanning from index i: "true", "false", or
\* "TypeError" when the callback reaches undefined; holes are skipped
RECURSIVE someBlank(_, _)
someBlank(arr, i) ==
    IF i > Len(arr) THEN "false"
    ELSE IF arr[i] = Hole THEN someBlank(arr, i + 1)
    ELSE IF arr[i] = Undefined THEN "TypeError"
    ELSE IF trim(arr[i].chars) = <<>> THEN "true"
    ELSE someBlank(arr, i + 1)

\* securityQuestions.every((q, i) => answers[i].toLowerCase().trim() ===
\* q.answer.toLowerCase().trim()), scanning from index i
RECURSIVE allCorrect(_, _, _)
allCorrect(questions, arr, i) ==
    IF i > Len(questions) THEN "true"
    ELSE IF i > Len(arr) \/ arr[i] = Hole \/ arr[i] = Undefined THEN "TypeError"
    ELSE IF trim(toLowerCase(arr[i].chars)) # trim(toLowerCase(questions[i].answer))
    THEN "false"
    ELSE allCorrect(questions, arr, i + 1)

(***************************************************************************)
(* Observation of calls                                                    *)
(***************************************************************************)
Call(op, ok, a1, a2, seen) ==
    [op |-> op, ok |-> ok, a1 |-> a1, a2 |-> a2, seen |-> seen]

\* the password a stored hash was computed from (NULL when none is stored)
PasswordOf(hash) == IF hash = NoItem THEN NULL ELSE hash.password

\* the collection a stored blob holds when it was encrypted under pw
StoredList(store, pw) ==
    IF store.vault_passwords # NoItem
       /\ store.vault_passwords.key = PBKDF2(pw, "vault-keeper-salt")
    THEN store.vault_passwords.data.value
    ELSE <<>>

NoCall == Call("none", TRUE, NULL, NULL, <<>>)

\* typing and navigation in the recovery form: no controller call is made
UserInput == Call("input", TRUE, NULL, NULL, <<>>)

Observe(call) ==
    /\ last' = call
    /\ prev' = CASE call.op = "logout" -> last
                 [] call.op = "login" /\ last.op \in {"logout", "login"} -> prev
                 [] OTHER -> NoCall

(***************************************************************************)
(* Rendering (Index.tsx, Login.tsx): the recovery form lives inside Login, *)
(* which is rendered only while logged out with a vault set up.            *)
(***************************************************************************)
RecoveryUnmounted ==
    /\ showRecovery' = FALSE
    /\ step' = "questions"
    /\ answers' = <<>>
    /\ error' = NULL
    /\ newPassword' = ""
    /\ confirmPassword' = ""
    /\ securityQuestions' = NoItem

Render ==
    IF showRecovery /\ ~isAuthenticated' /\ hasMasterPasswordSetup(ls')
    THEN UNCHANGED recoveryVars
    ELSE RecoveryUnmounted

\* an outcome of a controller operation becomes the new session; the
\* PasswordProvider effect and the re-render follow
ApplySession(o) ==
    /\ ls' = o.ls
    /\ masterPassword' = o.masterPassword
    /\ isAuthenticated' = o.isAuthenticated
    /\ passwords' \in LoadEffect(isAuthenticated, o.isAuthenticated,
                                  o.ls, o.masterPassword, passwords)

Apply(o) == ApplySession(o) /\ Render

(***************************************************************************)
(* Controller operations as actions                                        *)
(***************************************************************************)
SetupMasterPassword(password, quota) ==
    \E o \in setupMasterPassword(Session, password, quota) :
        /\ UNCHANGED sqliteVars
        /\ Apply(o)
        /\ UNCHANGED nextId
        /\ Observe(Call("setupMasterPassword", o.ret, password, NULL, <<>>))

SetupSecurityQuestions(questions, quota) ==
    \E o \in setupSecurityQuestions(Session, questions, quota) :
        /\ UNCHANGED sqliteVars
        /\ Apply(o)
        /\ UNCHANGED nextId
        /\ Observe(Call("setupSecurityQuestions", o.ret, NULL, NULL, <<>>))

Login(password) ==
    \E o \in login(Session, password) :
        /\ UNCHANGED sqliteVars
        /\ Apply(o)
        /\ UNCHANGED nextId
        /\ Observe(Call("login", o.ret, password, loginToast(Session, password), <<>>))

Logout ==
    \E o \in logout(Session) :
        /\ UNCHANGED sqliteVars
        /\ Apply(o)
        /\ UNCHANGED nextId
        /\ Observe(Call("logout", o.ret, NULL, NULL, <<>>))

ResetVault ==
    \E o \in resetVault(Session) :
        /\ UNCHANGED sqliteVars
        /\ Apply(o)
        /\ UNCHANGED nextId
        /\ Observe(Call("resetVault", o.ret, NULL, NULL, <<>>))

UpdateMasterPassword(currentPassword, newPwd, quota) ==
    \E o \in updateMasterPassword(Session, currentPassword, newPwd, quota) :
        /\ UNCHANGED sqliteVars
        /\ Apply(o)
        /\ UNCHANGED nextId
        /\ Observe(Call("updateMasterPassword", o.ret, currentPassword, newPwd,
                        StoredList(ls, currentPassword)))

ResetPasswordWithSecurityQuestions(newPwd, quota) ==
    \E o \in resetPasswordWithSecurityQuestions(Session, newPwd, quota) :
        /\ UNCHANGED sqliteVars
        /\ Apply(o)
        /\ UNCHANGED nextId
        /\ Observe(Call("resetPasswordWithSecurityQuestions", o.ret, newPwd,
                        PasswordOf(ls.vault_master_hash), <<>>))

\* resetVault of the controller on the LocalStorage class of storage.ts
ResetVaultOfStorageTs ==
    /\ UNCHANGED sqliteVars
    /\ Apply(Outcome(TRUE, resetVaultStoreOfStorageTs(ls), NULL, FALSE))
    /\ UNCHANGED nextId
    /\ Observe(Call("resetVault", TRUE, "storage.ts", NULL, <<>>))

(***************************************************************************)
(* Credential operations (PasswordContext.tsx)                             *)
(***************************************************************************)
\* the shared tail of addPassword / updatePassword / deletePassword:
\* savePasswords(updatedPasswords), then setPasswords on success
SaveList(op, id, updatedPasswords, quota) ==
    LET saved == savePasswords(ls, masterPassword, updatedPasswords, quota)
        ok == ~saved.threw /\ saved.ret
    IN  /\ ls' = saved.store
        /\ passwords' = IF ok THEN updatedPasswords ELSE passwords
        /\ UNCHANGED <<masterPassword, isAuthenticated>>
        /\ Render
        /\ Observe(Call(op, ok, id, NULL, <<>>))

AddPassword(title, quota) ==
    /\ UNCHANGED sqliteVars
    /\ nextId < MaxAdds
    /\ nextId' = nextId + 1
    /\ SaveList("addPassword", nextId + 1, Append(passwords, NewEntry(title)), quota)

UpdatePassword(id, title, quota) ==
    /\ UNCHANGED sqliteVars
    /\ UNCHANGED nextId
    /\ IF IndexOfId(passwords, id) = 0
       THEN /\ UNCHANGED <<ls, masterPassword, isAuthenticated, passwords>>
            /\ Render
            /\ Observe(Call("updatePassword", FALSE, id, NULL, <<>>))
       ELSE SaveList("updatePassword", id,
                     [passwords EXCEPT ![IndexOfId(passwords, id)].title = title],
                     quota)

\* faulty variant: the entry is removed together with every entry after it
DeletePasswordTruncating(id, quota) ==
    /\ UNCHANGED sqliteVars
    /\ UNCHANGED nextId
    /\ IF IndexOfId(passwords, id) = 0
       THEN /\ UNCHANGED <<ls, masterPassword, isAuthenticated, passwords>>
            /\ Render
            /\ Observe(Call("deletePassword", FALSE, id, NULL, <<>>))
       ELSE SaveList("deletePassword", id,
                     SubSeq(passwords, 1, IndexOfId(passwords, id) - 1), quota)

DeletePassword(id, quota) ==
    /\ UNCHANGED sqliteVars
    /\ UNCHANGED nextId
    /\ IF IndexOfId(passwords, id) = 0
       THEN /\ UNCHANGED <<ls, masterPassword, isAuthenticated, passwords>>
            /\ Render
            /\ Observe(Call("deletePassword", FALSE, id, NULL, <<>>))
       ELSE SaveList("deletePassword", id, RemoveId(passwords, id), quota)

(***************************************************************************)
(* PasswordRecovery.tsx                                                    *)
(***************************************************************************)
QuestionsFormRendered ==
    /\ showRecovery
    /\ securityQuestions # NoItem
    /\ Len(securityQuestions.value) > 0
    /\ step = "questions"

PasswordFormRendered ==
    /\ showRecovery
    /\ securityQuestions # NoItem
    /\ Len(securityQuestions.value) > 0
    /\ step = "new-password"

\* Login: setShowRecovery(true); PasswordRecovery mounts and its effect loads
\* the stored questions
OpenRecovery ==
    /\ UNCHANGED sqliteVars
    /\ ~showRecovery
    /\ ~isAuthenticated
    /\ hasMasterPasswordSetup(ls)
    /\ showRecovery' = TRUE
    /\ securityQuestions' = getSecurityQuestions(ls)
    /\ UNCHANGED <<step, answers, error, newPassword, confirmPassword>>
    /\ UNCHANGED authVars
    /\ Observe(UserInput)

\* onCancel: setShowRecovery(false)
CancelRecovery ==
    /\ UNCHANGED sqliteVars
    /\ showRecovery
    /\ RecoveryUnmounted
    /\ UNCHANGED authVars
    /\ Observe(UserInput)

handleAnswerChange(index, answer) ==
    /\ UNCHANGED sqliteVars
    /\ QuestionsFormRendered
    /\ index \in 1..Len(securityQuestions.value)
    /\ answers' = AssignIndex(Spread(answers), index, Str(answer))
    /\ error' = NULL
    /\ UNCHANGED <<showRecovery, step, newPassword, confirmPassword, securityQuestions>>
    /\ UNCHANGED authVars
    /\ Observe(UserInput)

\* "advance", an error message, or "TypeError" when the handler throws
questionsVerdict(questions, arr) ==
    IF Len(arr) # Len(questions) THEN "Please answer all security questions"
    ELSE IF someBlank(arr, 1) = "TypeError" THEN "TypeError"
    ELSE IF someBlank(arr, 1) = "true" THEN "Please answer all security questions"
    ELSE IF allCorrect(questions, arr, 1) = "TypeError" THEN "TypeError"
    ELSE IF allCorrect(questions, arr, 1) = "false" THEN "One or more answers are incorrect"
    ELSE "advance"

handleQuestionsSubmit ==
    /\ UNCHANGED sqliteVars
    /\ QuestionsFormRendered
    /\ LET verdict == questionsVerdict(securityQuestions.value, answers)
       IN  /\ step' = IF verdict = "advance" THEN "new-password" ELSE step
           /\ error' = CASE verdict = "advance" -> NULL
                         [] verdict = "TypeError" -> error
                         [] OTHER -> verdict
           /\ Observe(Call("handleQuestionsSubmit", verdict = "advance",
                           verdict, NULL, <<>>))
    /\ UNCHANGED <<showRecovery, answers, newPassword, confirmPassword, securityQuestions>>
    /\ UNCHANGED authVars

setNewPassword(typed) ==
    /\ UNCHANGED sqliteVars
    /\ PasswordFormRendered
    /\ newPassword' = typed
    /\ UNCHANGED <<showRecovery, step, answers, error, confirmPassword, securityQuestions>>
    /\ UNCHANGED authVars
    /\ Observe(UserInput)

setConfirmPassword(typed) ==
    /\ UNCHANGED sqliteVars
    /\ PasswordFormRendered
    /\ confirmPassword' = typed
    /\ UNCHANGED <<showRecovery, step, answers, error, newPassword, securityQuestions>>
    /\ UNCHANGED authVars
    /\ Observe(UserInput)

\* the Back button of the new-password form
Back ==
    /\ UNCHANGED sqliteVars
    /\ PasswordFormRendered
    /\ step' = "questions"
    /\ UNCHANGED <<showRecovery, answers, error, newPassword, confirmPassword, securityQuestions>>
    /\ UNCHANGED authVars
    /\ Observe(UserInput)

\* faulty variant: the confirmation field is not compared
passwordFieldsErrorLengthOnly(typed, confirm) ==
    IF typed = "" \/ Len(typed) < MinPasswordLength
    THEN "Password must be at least 8 characters"
    ELSE NULL

\* the validation of handlePasswordSubmit: NULL when the fields pass
passwordFieldsError(typed, confirm) ==
    IF typed = "" \/ Len(typed) < MinPasswordLength
    THEN "Password must be at least 8 characters"
    ELSE IF typed # confirm THEN "Passwords do not match"
    ELSE NULL

handlePasswordSubmit(quota) ==
    /\ UNCHANGED sqliteVars
    /\ PasswordFormRendered
    /\ UNCHANGED nextId
    /\ IF passwordFieldsError(newPassword, confirmPassword) # NULL
       THEN /\ error' = passwordFieldsError(newPassword, confirmPassword)
            /\ UNCHANGED <<showRecovery, step, answers, newPassword,
                           confirmPassword, securityQuestions>>
            /\ UNCHANGED <<ls, masterPassword, isAuthenticated, passwords>>
            /\ Observe(Call("handlePasswordSubmit", FALSE, newPassword,
                            PasswordOf(ls.vault_master_hash), <<>>))
       ELSE \E o \in resetPasswordWithSecurityQuestions(Session, newPassword, quota) :
            /\ ApplySession(o)
            /\ IF o.ret
               THEN Render
               ELSE /\ error' = "Failed to reset password. Please try again."
                    /\ UNCHANGED <<showRecovery, step, answers, newPassword,
                                   confirmPassword, securityQuestions>>
            /\ Observe(Call("handlePasswordSubmit", o.ret, newPassword,
                            PasswordOf(ls.vault_master_hash), <<>>))

(***************************************************************************)
(* class SQLiteStorage (sqliteStorage.ts, the version that keeps the       *)
(* database file in IndexedDB and in sync storage).  `fail` names the      *)
(* durable write that fails during one persistChanges(): "indexedDB" (the  *)
(* put is rejected), "sync_db_data" or "sync_db_timestamp" (that setItem   *)
(* throws), or "none".                                                     *)
(***************************************************************************)
WriteFailures == {"none", "indexedDB", "sync_db_data", "sync_db_timestamp"}

\* the database initDatabase creates: both tables, no rows
EmptyDatabase ==
    [kind |-> "db", master_hash |-> NoItem, security_questions |-> NoItem,
     passwords |-> NoItem]

\* a file that is not an SQLite database
InvalidBytes == [kind |-> "bytes", content |-> "not a database"]

\* the credential lists handed to savePasswords
StoreLists == {<<>>, <<[id |-> 1, title |-> "mail"]>>}

\* faulty variant: an export that leaves out the settings table
exportWithoutSettings(database) ==
    IF database.kind = "db"
    THEN [kind |-> "sqlite", master_hash |-> NoItem,
          security_questions |-> NoItem, passwords |-> database.passwords]
    ELSE database.file

\* exportDatabase(): this.db.export(), the bytes of the database file
exportDatabase(database) ==
    IF database.kind = "db"
    THEN [kind |-> "sqlite", master_hash |-> database.master_hash,
          security_questions |-> database.security_questions,
          passwords |-> database.passwords]
    ELSE database.file

\* new SQL.Database(data).  sql.js copies the bytes into a file and opens it
\* without reading it: bytes that are no database give a Database object
\* whose statements throw ("file is not a database").
NewDatabase(data) ==
    IF data.kind = "sqlite"
    THEN [kind |-> "db", master_hash |-> data.master_hash,
          security_questions |-> data.security_questions,
          passwords |-> data.passwords]
    ELSE [kind |-> "notadb", file |-> data]

\* the storage object with its two durable stores
SQLite ==
    [db |-> db, idb |-> idb, sync |-> syncStorage, masterPassword |-> masterPassword,
     lastSyncTimestamp |-> lastSyncTimestamp]

\* saveToIndexedDB(): [threw, D]
saveToIndexedDB(D, fail) ==
    IF D.db = NoItem
    THEN [threw |-> FALSE, D |-> D]
    ELSE IF fail = "indexedDB"
    THEN [threw |-> TRUE, D |-> D]
    ELSE [threw |-> FALSE, D |-> [D EXCEPT !.idb = exportDatabase(D.db)]]

\* saveToSyncStorage(): [ret, D]; sync_db_timestamp is TRUE once the item is set
saveToSyncStorage(D, fail) ==
    IF D.db = NoItem \/ fail = "sync_db_data"
    THEN [ret |-> FALSE, D |-> D]
    ELSE IF fail = "sync_db_timestamp"
    THEN [ret |-> FALSE,
          D |-> [D EXCEPT !.sync.sync_db_data = exportDatabase(D.db)]]
    ELSE [ret |-> TRUE,
          D |-> [D EXCEPT !.sync = [sync_db_data |-> exportDatabase(D.db),
                                    sync_db_timestamp |-> TRUE],
                          !.lastSyncTimestamp = "behind"]]

\* persistChanges(): [threw, D]
persistChanges(D, fail) ==
    LET saved == saveToIndexedDB(D, fail)
    IN  IF saved.threw
        THEN [threw |-> TRUE, D |-> D]
        ELSE [threw |-> FALSE, D |-> saveToSyncStorage(saved.D, fail).D]

\* getSettingValue(key); a statement on a file that is no database throws and
\* the catch returns null
getSettingValue(database, key) ==
    IF database.kind = "db" THEN database[key] ELSE NoItem

\* faulty variant: the row replaces the whole settings table
setSettingValueReplacingAll(D, key, value, fail) ==
    IF D.db.kind # "db"
    THEN D
    ELSE persistChanges([D EXCEPT !.db = [EmptyDatabase EXCEPT
                                            ![key] = value,
                                            !.passwords = D.db.passwords]], fail).D

\* setSettingValue(key, value): the storage object afterwards; every error is caught
setSettingValue(D, key, value, fail) ==
    IF D.db.kind # "db"
    THEN D
    ELSE persistChanges([D EXCEPT !.db[key] = value], fail).D

\* SQLiteStorage.storeMasterPasswordHash(): [threw, D]
SQLite_storeMasterPasswordHash(D, hash, fail1, fail2) ==
    persistChanges(setSettingValue(D, "master_hash", hash, fail1), fail2)

\* SQLiteStorage.saveSecurityQuestions(): [ret, D]
SQLite_saveSecurityQuestions(D, questions, fail1, fail2) ==
    LET p == persistChanges(setSettingValue(D, "security_questions",
                                            JSONstringify(questions), fail1), fail2)
    IN  [ret |-> ~p.threw, D |-> p.D]

\* SQLiteStorage.savePasswords(): [threw, ret, D]
SQLite_savePasswords(D, list, fail) ==
    IF D.masterPassword = NULL
    THEN [threw |-> TRUE, ret |-> FALSE, D |-> D]
    ELSE IF D.db.kind # "db"
    THEN [threw |-> FALSE, ret |-> FALSE, D |-> D]
    ELSE LET p == persistChanges(
                    [D EXCEPT !.db.passwords =
                        encryptData(JSONstringify(list), D.masterPassword)], fail)
         IN  [threw |-> FALSE, ret |-> ~p.threw, D |-> p.D]

\* SQLiteStorage.resetVault(): the storage object afterwards; every error is caught
SQLite_resetVault(D, fail) ==
    IF D.db.kind # "db"
    THEN D
    ELSE persistChanges([D EXCEPT !.db = EmptyDatabase, !.masterPassword = NULL],
                        fail).D

\* SQLiteStorage.importDatabase(): [ret, D]
SQLite_importDatabase(D, data, fail) ==
    LET p == persistChanges([D EXCEPT !.db = NewDatabase(data)], fail)
    IN  [ret |-> ~p.threw, D |-> p.D]

\* initDatabase() in a fresh page: the storage object it leaves.  Sync storage
\* is tried first, IndexedDB only when sync storage gave nothing, a new
\* database is created and saved when neither did.
initDatabase(D, fail) ==
    LET fresh == [D EXCEPT !.masterPassword = NULL, !.lastSyncTimestamp = "current"]
    IN  IF D.sync.sync_db_data # NoItem /\ D.sync.sync_db_timestamp
        THEN [fresh EXCEPT !.db = NewDatabase(D.sync.sync_db_data)]
        ELSE IF D.idb # NoItem
        THEN [fresh EXCEPT !.db = NewDatabase(D.idb)]
        ELSE LET saved == saveToIndexedDB([fresh EXCEPT !.db = EmptyDatabase], fail)
             IN  IF saved.threw THEN saved.D
                 ELSE saveToSyncStorage(saved.D, fail).D

\* what the getters return: master hash, security questions, credential blob
Stored(database) ==
    <<getSettingValue(database, "master_hash"),
      getSettingValue(database, "security_questions"),
      getSettingValue(database, "passwords")>>

(***************************************************************************)
(* SQLiteStorage operations as actions                                     *)
(***************************************************************************)
ApplySQLite(D) ==
    /\ db' = D.db
    /\ idb' = D.idb
    /\ syncStorage' = D.sync
    /\ lastSyncTimestamp' = D.lastSyncTimestamp
    /\ masterPassword' = D.masterPassword
    /\ UNCHANGED <<ls, isAuthenticated, passwords, nextId>>
    /\ UNCHANGED recoveryVars
    /\ UNCHANGED pending
    /\ UNCHANGED <<startupVars, pageVars>>

SetMasterPassword(password) ==
    /\ ApplySQLite([SQLite EXCEPT !.masterPassword = password])
    /\ UNCHANGED backup
    /\ Observe(Call("setMasterPassword", TRUE, password, NULL, <<>>))

StoreMasterPasswordHash(password, fail1, fail2) ==
    LET r == SQLite_storeMasterPasswordHash(SQLite, hashMasterPassword(password),
                                            fail1, fail2)
    IN  /\ ApplySQLite(r.D)
        /\ UNCHANGED backup
        /\ Observe(Call("storeMasterPasswordHash", ~r.threw, password, NULL, <<>>))

SaveSecurityQuestions(questions, fail1, fail2) ==
    LET r == SQLite_saveSecurityQuestions(SQLite, questions, fail1, fail2)
    IN  /\ ApplySQLite(r.D)
        /\ UNCHANGED backup
        /\ Observe(Call("saveSecurityQuestions", r.ret, NULL, NULL, questions))

SavePasswords(list, fail) ==
    LET r == SQLite_savePasswords(SQLite, list, fail)
    IN  /\ ApplySQLite(r.D)
        /\ UNCHANGED backup
        /\ Observe(Call("savePasswords", ~r.threw /\ r.ret, NULL, NULL, list))

SQLiteResetVault(fail) ==
    /\ ApplySQLite(SQLite_resetVault(SQLite, fail))
    /\ UNCHANGED backup
    /\ Observe(Call("resetVault", TRUE, NULL, NULL, <<>>))

\* saveToFile(): the exported bytes are kept as a file
ExportDatabase ==
    /\ backup' = [bytes |-> exportDatabase(db), seen |-> Stored(db)]
    /\ ApplySQLite(SQLite)
    /\ Observe(Call("exportDatabase", TRUE, NULL, NULL, <<>>))

\* loadFromFile(file) with the exported file ("backup") or with a file that
\* is no database ("invalid")
ImportDatabase(file, fail) ==
    /\ file = "backup" => backup # NoItem
    /\ LET r == SQLite_importDatabase(
                    SQLite, IF file = "backup" THEN backup.bytes ELSE InvalidBytes, fail)
       IN  /\ ApplySQLite(r.D)
           /\ Observe(Call("importDatabase", r.ret, file, NULL, <<>>))
    /\ UNCHANGED backup

\* the page is reloaded: a new SQLiteStorage is constructed from the durable stores
Reload(fail) ==
    /\ ApplySQLite(initDatabase(SQLite, fail))
    /\ UNCHANGED backup
    /\ Observe(Call("initDatabase", TRUE, NULL, NULL, <<>>))

(***************************************************************************)
(* PasswordProvider on the SQLite store (part_002): addPassword,           *)
(* updatePassword and deletePassword are async.  Each computes             *)
(* updatedPasswords from the `passwords` state it was called with, awaits  *)
(* sqliteStorageService.savePasswords(updatedPasswords) and then calls     *)
(* setPasswords(updatedPasswords).  Two calls may be in flight at once,    *)
(* one per slot.                                                           *)
(***************************************************************************)
Slots == {1, 2}

Idle ==
    [phase |-> "idle", op |-> "none", id |-> 0, title |-> "", updated |-> <<>>,
     ok |-> FALSE, overlapped |-> FALSE]

InFlight(slot) == pending[slot].phase \in {"called", "written"}

Other(slot) == CHOOSE t \in Slots : t # slot

\* the list a mutation computes from the state it was called with
updatedPasswords(op, id, title) ==
    CASE op = "addPassword" -> Append(passwords, [id |-> id, title |-> title])
      [] op = "updatePassword" ->
            [passwords EXCEPT ![IndexOfId(passwords, id)].title = title]
      [] op = "deletePassword" -> RemoveId(passwords, id)

\* the call up to its await: updatedPasswords is computed, or false is
\* returned at once when the entry is not found
BeginMutation(slot, op, id, title) ==
    /\ ~InFlight(slot)
    /\ op = "addPassword" => nextId < MaxAdds /\ id = nextId + 1
    /\ nextId' = IF op = "addPassword" THEN nextId + 1 ELSE nextId
    /\ IF op # "addPassword" /\ IndexOfId(passwords, id) = 0
       THEN /\ pending' = [pending EXCEPT ![slot] =
                    [Idle EXCEPT !.phase = "returned", !.op = op, !.id = id,
                                 !.title = title]]
            /\ Observe(Call(op, FALSE, id, title, passwords))
       ELSE /\ pending' = [t \in Slots |->
                    IF t = slot
                    THEN [phase |-> "called", op |-> op, id |-> id, title |-> title,
                          updated |-> updatedPasswords(op, id, title),
                          ok |-> FALSE, overlapped |-> InFlight(Other(slot))]
                    ELSE [pending[t] EXCEPT !.overlapped = @ \/ InFlight(t)]]
            /\ UNCHANGED <<last, prev>>
    /\ UNCHANGED <<ls, masterPassword, isAuthenticated, passwords>>
    /\ UNCHANGED <<db, idb, syncStorage, lastSyncTimestamp, backup>>
    /\ UNCHANGED <<startupVars, pageVars>>
    /\ UNCHANGED recoveryVars

\* sqliteStorageService.savePasswords(updatedPasswords) runs
WriteMutation(slot) ==
    /\ pending[slot].phase = "called"
    /\ LET r == SQLite_savePasswords(SQLite, pending[slot].updated, "none")
       IN  /\ db' = r.D.db
           /\ idb' = r.D.idb
           /\ syncStorage' = r.D.sync
           /\ lastSyncTimestamp' = r.D.lastSyncTimestamp
           /\ pending' = [pending EXCEPT ![slot].phase = "written",
                                         ![slot].ok = ~r.threw /\ r.ret]
    /\ UNCHANGED <<ls, masterPassword, isAuthenticated, passwords, nextId, backup>>
    /\ UNCHANGED <<startupVars, pageVars>>
    /\ UNCHANGED <<last, prev>>
    /\ UNCHANGED recoveryVars

\* the await resumes: setPasswords(updatedPasswords) when saved, and the result
ReturnMutation(slot) ==
    /\ pending[slot].phase = "written"
    /\ passwords' = IF pending[slot].ok THEN pending[slot].updated ELSE passwords
    /\ pending' = [pending EXCEPT ![slot].phase = "returned"]
    /\ Observe(Call(pending[slot].op, pending[slot].ok, pending[slot].id,
                    pending[slot].title, pending[slot].updated))
    /\ UNCHANGED <<ls, masterPassword, isAuthenticated, nextId>>
    /\ UNCHANGED <<db, idb, syncStorage, lastSyncTimestamp, backup>>
    /\ UNCHANGED <<startupVars, pageVars>>
    /\ UNCHANGED recoveryVars

\* the list in the credential blob of the database
SQLiteStoredList(database) ==
    IF database.kind = "db" /\ database.passwords # NoItem
    THEN database.passwords.data.value
    ELSE <<>>

\* a list shows the change a mutation asked for
Reflects(m, list) ==
    CASE m.op = "addPassword" -> IndexOfId(list, m.id) # 0
      [] m.op = "deletePassword" -> IndexOfId(list, m.id) = 0
      [] m.op = "updatePassword" ->
            /\ IndexOfId(list, m.id) # 0
            /\ list[IndexOfId(list, m.id)].title = m.title
      [] OTHER -> TRUE

(***************************************************************************)
(* Start of the page: the SQLiteStorage constructor starts initDatabase()  *)
(* and keeps its promise; ensureDbReady() awaits that promise; the         *)
(* StorageProvider awaits ensureDbReady() and then sets isReady            *)
(* (sqliteStorage.ts, first class; StorageContext.tsx).                    *)
(***************************************************************************)
\* what may fail during initDatabase(): loading sql.js, reading the file from
\* IndexedDB, writing the new file to IndexedDB
InitFailures == {"none", "initSqlJs", "load", "save"}

\* the code that awaits ensureDbReady()
Callers == {"StorageProvider", "PasswordProvider"}

MaxInitCalls == 2

\* initDatabase() of the first class: [D, initialized].  loadDatabaseFromStorage
\* resolves with null on every error; everything thrown is caught and leaves
\* initialized false.
initDatabase1(D, fail) ==
    IF fail = "initSqlJs"
    THEN [D |-> D, initialized |-> FALSE]
    ELSE LET existingDbData == IF fail = "load" THEN NoItem ELSE D.idb
         IN  IF existingDbData # NoItem
             THEN [D |-> [D EXCEPT !.db = NewDatabase(existingDbData)],
                   initialized |-> TRUE]
             ELSE IF fail = "save"
             THEN [D |-> [D EXCEPT !.db = EmptyDatabase], initialized |-> FALSE]
             ELSE [D |-> [D EXCEPT !.db = EmptyDatabase,
                                   !.idb = exportDatabase(EmptyDatabase)],
                   initialized |-> TRUE]

\* faulty variant: initialization is started again whenever it has not succeeded
ensureDbReadyRetrying(promise, init) ==
    IF promise = "rejected" \/ ~init THEN "reinit" ELSE "return"

\* ensureDbReady() after its await has settled: initDatabase() is started
\* again only in the catch block, that is when the promise rejected
ensureDbReadySettled(promise, init) ==
    IF promise = "rejected" THEN "reinit" ELSE "return"

\* the page is loaded: new SQLiteStorage(), providers mounted
Construct ==
    /\ db' = NoItem
    /\ masterPassword' = NULL
    /\ initialized' = FALSE
    /\ initializationPromise' = "pending"
    /\ initCalls' = 1
    /\ ensuring' = {}
    /\ isReady' = FALSE
    /\ storageError' = FALSE
    /\ UNCHANGED <<ls, isAuthenticated, passwords, nextId>>
    /\ UNCHANGED <<idb, syncStorage, lastSyncTimestamp, backup, pending, pageVars>>
    /\ UNCHANGED recoveryVars
    /\ Observe(Call("constructor", TRUE, NULL, NULL, <<>>))

\* the running initDatabase() comes to its end
InitDatabaseSettles(fail) ==
    /\ initializationPromise = "pending"
    /\ LET r == initDatabase1(SQLite, fail)
       IN  /\ db' = r.D.db
           /\ idb' = r.D.idb
           /\ initialized' = r.initialized
           /\ Observe(Call("initDatabase", r.initialized, fail, idb, <<>>))
    /\ initializationPromise' = "resolved"
    /\ UNCHANGED <<ls, masterPassword, isAuthenticated, passwords, nextId>>
    /\ UNCHANGED <<syncStorage, lastSyncTimestamp, backup, pending, pageVars>>
    /\ UNCHANGED <<initCalls, ensuring, isReady, storageError>>
    /\ UNCHANGED recoveryVars

\* ensureDbReady() returns to its caller; the StorageProvider then calls
\* setIsReady(true) without looking at the result
ReturnReady(caller, waiting) ==
    /\ ensuring' = ensuring \ {caller}
    /\ isReady' = IF caller = "StorageProvider" THEN TRUE ELSE isReady
    /\ UNCHANGED <<db, idb, syncStorage, lastSyncTimestamp, backup, pending, pageVars>>
    /\ UNCHANGED <<initialized, initializationPromise, initCalls, storageError>>
    /\ Observe(Call("ensureDbReady", db # NoItem, caller, waiting, <<>>))

\* a call of ensureDbReady(): returns at once when initialized, awaits the
\* promise otherwise
EnsureDbReady(caller) ==
    /\ caller \notin ensuring
    /\ caller = "StorageProvider" => ~isReady
    /\ IF initialized
       THEN ReturnReady(caller, 0)
       ELSE /\ ensuring' = ensuring \cup {caller}
            /\ UNCHANGED <<db, idb, syncStorage, lastSyncTimestamp, backup, pending, pageVars>>
            /\ UNCHANGED <<initialized, initializationPromise, initCalls,
                           isReady, storageError>>
            /\ Observe(Call("await", TRUE, caller, NULL, <<>>))
    /\ UNCHANGED <<ls, masterPassword, isAuthenticated, passwords, nextId>>
    /\ UNCHANGED recoveryVars

\* the awaited promise has settled and the call goes on
EnsureDbReadyResumes(caller) ==
    /\ caller \in ensuring
    /\ initializationPromise # "pending"
    /\ IF ensureDbReadySettled(initializationPromise, initialized) = "reinit"
          /\ initCalls < MaxInitCalls
       THEN /\ initializationPromise' = "pending"
            /\ initCalls' = initCalls + 1
            /\ UNCHANGED <<db, idb, syncStorage, lastSyncTimestamp, backup, pending, pageVars>>
            /\ UNCHANGED <<initialized, ensuring, isReady, storageError>>
            /\ Observe(Call("await", TRUE, caller, NULL, <<>>))
       ELSE ReturnReady(caller, Cardinality(ensuring))
    /\ UNCHANGED <<ls, masterPassword, isAuthenticated, passwords, nextId>>
    /\ UNCHANGED recoveryVars

\* the file in IndexedDB is damaged outside the application
CorruptSnapshot ==
    /\ idb \notin {NoItem, InvalidBytes}
    /\ idb' = InvalidBytes
    /\ UNCHANGED <<ls, masterPassword, isAuthenticated, passwords, nextId>>
    /\ UNCHANGED <<db, syncStorage, lastSyncTimestamp, backup, pending, pageVars>>
    /\ UNCHANGED <<startupVars, pageVars>>
    /\ UNCHANGED recoveryVars
    /\ Observe(Call("corrupt", TRUE, NULL, NULL, <<>>))

(***************************************************************************)
(* The class that takes over the data of the localStorage version          *)
(* (sqliteStorage.ts, third class): initDatabase() creates an in-memory    *)
(* database and calls migrateFromLocalStorage().                           *)
(***************************************************************************)
\* migrateFromLocalStorage(): the storage object afterwards
migrateFromLocalStorage(D, store) ==
    LET withHash ==
            IF store.vault_master_hash # NoItem
            THEN [D EXCEPT !.db.master_hash = store.vault_master_hash]
            ELSE D
        withQuestions ==
            IF store.vault_security_questions # NoItem
            THEN [withHash EXCEPT !.db.security_questions = store.vault_security_questions]
            ELSE withHash
    IN  IF D.masterPassword # NULL /\ store.vault_passwords # NoItem
        THEN [withQuestions EXCEPT !.db.passwords = store.vault_passwords]
        ELSE withQuestions

\* getPasswords() on the database: a blob that does not decrypt gives []
SQLite_getPasswords(database, mp) ==
    IF /\ database.kind = "db"
       /\ database.passwords # NoItem
       /\ database.passwords.key = PBKDF2(mp, "vault-keeper-salt")
    THEN database.passwords.data.value
    ELSE <<>>

\* the page is loaded with this class: constructor, initDatabase(), migration
MigratingStart ==
    /\ db' = migrateFromLocalStorage(
                [SQLite EXCEPT !.db = EmptyDatabase, !.masterPassword = NULL], ls).db
    /\ masterPassword' = NULL
    /\ isAuthenticated' = FALSE
    /\ passwords' = <<>>
    /\ UNCHANGED <<ls, nextId>>
    /\ UNCHANGED <<idb, syncStorage, lastSyncTimestamp, backup, pending, pageVars>>
    /\ UNCHANGED <<startupVars, pageVars>>
    /\ RecoveryUnmounted
    /\ Observe(Call("migrateFromLocalStorage", TRUE, NULL, NULL, <<>>))

\* login against the database: the hash is verified, the master password is
\* set and the PasswordProvider loads getPasswords()
SQLiteLogin(password) ==
    /\ ~isAuthenticated
    /\ LET hash == getSettingValue(db, "master_hash")
           ok == hash # NoItem /\ verifyMasterPassword(password, hash)
       IN  /\ masterPassword' = IF ok THEN password ELSE masterPassword
           /\ isAuthenticated' = ok
           /\ passwords' = IF ok THEN SQLite_getPasswords(db, password) ELSE passwords
           /\ Observe(Call("login", ok, password, "sqlite", StoredList(ls, password)))
    /\ UNCHANGED <<ls, nextId>>
    /\ UNCHANGED sqliteVars
    /\ UNCHANGED recoveryVars

(***************************************************************************)
(* Specifications                                                          *)
(***************************************************************************)
Init ==
    /\ ls = [vault_master_hash |-> NoItem,
             vault_passwords |-> NoItem,
             vault_security_questions |-> NoItem]
    /\ masterPassword = NULL
    /\ isAuthenticated = FALSE
    /\ passwords = <<>>
    /\ nextId = 0
    /\ showRecovery = FALSE
    /\ step = "questions"
    /\ answers = <<>>
    /\ error = NULL
    /\ newPassword = ""
    /\ confirmPassword = ""
    /\ securityQuestions = NoItem
    /\ last = NoCall
    /\ prev = NoCall
    /\ db = EmptyDatabase
    /\ idb = exportDatabase(EmptyDatabase)
    /\ syncStorage = [sync_db_data |-> exportDatabase(EmptyDatabase),
                      sync_db_timestamp |-> TRUE]
    /\ backup = NoItem
    /\ pending = [slot \in Slots |-> Idle]
    /\ initialized = TRUE
    /\ initializationPromise = "resolved"
    /\ initCalls = 1
    /\ ensuring = {}
    /\ isReady = TRUE
    /\ storageError = FALSE
    /\ lastSyncTimestamp = "behind"
    /\ idbRequests = <<>>
    /\ autoLockEnabled = TRUE

\* the controller and the credential list on a localStorage whose writes succeed
Next ==
    \/ \E p \in Passwords : SetupMasterPassword(p, {})
    \/ \E q \in QuestionLists : SetupSecurityQuestions(q, {})
    \/ \E p \in Passwords : Login(p)
    \/ Logout
    \/ ResetVault
    \/ \E p, q \in Passwords : UpdateMasterPassword(p, q, {})
    \/ \E p \in Passwords : ResetPasswordWithSecurityQuestions(p, {})
    \/ \E t \in Titles : AddPassword(t, {})
    \/ \E i \in 1..MaxAdds, t \in Titles : UpdatePassword(i, t, {})
    \/ \E i \in 1..MaxAdds : DeletePassword(i, {})

Spec == Init /\ [][Next]_vars

\* the same operations when any setItem may throw QuotaExceededError
NextQuota ==
    \/ \E p \in Passwords, quota \in SUBSET {"vault_master_hash", "vault_passwords"} :
            SetupMasterPassword(p, quota)
    \/ \E q \in QuestionLists, quota \in SUBSET {"vault_security_questions"} :
            SetupSecurityQuestions(q, quota)
    \/ \E p \in Passwords : Login(p)
    \/ Logout
    \/ ResetVault
    \/ \E p, q \in Passwords, quota \in SUBSET {"vault_master_hash", "vault_passwords"} :
            UpdateMasterPassword(p, q, quota)
    \/ \E p \in Passwords, quota \in SUBSET {"vault_master_hash", "vault_passwords"} :
            ResetPasswordWithSecurityQuestions(p, quota)
    \/ \E t \in Titles, quota \in SUBSET {"vault_passwords"} : AddPassword(t, quota)
    \/ \E i \in 1..MaxAdds, t \in Titles, quota \in SUBSET {"vault_passwords"} :
            UpdatePassword(i, t, quota)
    \/ \E i \in 1..MaxAdds, quota \in SUBSET {"vault_passwords"} :
            DeletePassword(i, quota)

SpecQuota == Init /\ [][NextQuota]_vars

\* the login screen with its recovery form, on a localStorage whose writes succeed
NextRecovery ==
    \/ \E p \in Passwords : SetupMasterPassword(p, {})
    \/ \E q \in QuestionLists : SetupSecurityQuestions(q, {})
    \/ \E p \in Passwords : Login(p)
    \/ Logout
    \/ OpenRecovery
    \/ CancelRecovery
    \/ \E i \in 1..MaxQuestions, a \in TypedAnswers : handleAnswerChange(i, a)
    \/ handleQuestionsSubmit
    \/ \E p \in TypedPasswords : setNewPassword(p)
    \/ \E p \in TypedPasswords : setConfirmPassword(p)
    \/ Back
    \/ handlePasswordSubmit({})

SpecRecovery == Init /\ [][NextRecovery]_vars

\* the SQLite store, its export and import and the page reload, when every
\* durable write succeeds
NextSQLite ==
    \/ \E p \in Passwords : SetMasterPassword(p)
    \/ \E p \in Passwords : StoreMasterPasswordHash(p, "none", "none")
    \/ \E q \in QuestionLists : SaveSecurityQuestions(q, "none", "none")
    \/ \E l \in StoreLists : SavePasswords(l, "none")
    \/ SQLiteResetVault("none")
    \/ ExportDatabase
    \/ \E f \in {"backup", "invalid"} : ImportDatabase(f, "none")
    \/ Reload("none")

SpecSQLite == Init /\ [][NextSQLite]_vars

\* the same when a durable write may fail
NextSQLiteFail ==
    \/ SetMasterPassword("Secret123!")
    \/ \E f1, f2 \in WriteFailures : StoreMasterPasswordHash("Secret123!", f1, f2)
    \/ \E f1, f2 \in WriteFailures :
            SaveSecurityQuestions([i \in 1..MaxQuestions |->
                                      [question |-> i, answer |-> <<"a">>]], f1, f2)
    \/ \E l \in StoreLists, f \in WriteFailures : SavePasswords(l, f)
    \/ \E f \in WriteFailures : SQLiteResetVault(f)
    \/ \E f \in WriteFailures : ImportDatabase("invalid", f)
    \/ \E f \in WriteFailures : Reload(f)

SpecSQLiteFail == Init /\ [][NextSQLiteFail]_vars

\* credential mutations on the SQLite store that may overlap; writes succeed
NextOverlap ==
    \/ SetMasterPassword("Secret123!")
    \/ \E slot \in Slots, op \in {"addPassword", "updatePassword", "deletePassword"},
          id \in 1..MaxAdds, title \in Titles : BeginMutation(slot, op, id, title)
    \/ \E slot \in Slots : WriteMutation(slot)
    \/ \E slot \in Slots : ReturnMutation(slot)

SpecOverlap == Init /\ [][NextOverlap]_vars

\* the lists setupSecurityQuestions may be called with: any number of pairs
QuestionListsOfAnyLength ==
    QuestionLists \cup
    {[i \in 1..n |-> [question |-> i, answer |-> <<"a">>]] : n \in 0..(MaxQuestions - 1)}

\* the controller called directly, with question lists of any length
NextSetup ==
    \/ \E p \in Passwords : SetupMasterPassword(p, {})
    \/ \E q \in QuestionListsOfAnyLength : SetupSecurityQuestions(q, {})
    \/ \E p \in Passwords : Login(p)
    \/ Logout
    \/ ResetVault
    \/ \E t \in Titles : AddPassword(t, {})

SpecSetup == Init /\ [][NextSetup]_vars

\* the localStorage version is used, then the page is loaded with the class
\* that migrates its data
NextMigration ==
    \/ \E p \in Passwords : SetupMasterPassword(p, {})
    \/ \E q \in QuestionLists : SetupSecurityQuestions(q, {})
    \/ \E t \in Titles : AddPassword(t, {})
    \/ Logout
    \/ MigratingStart
    \/ \E p \in Passwords : SQLiteLogin(p)

SpecMigration == Init /\ [][NextMigration]_vars

\* the controller on the LocalStorage class of storage.ts
NextStorageTs ==
    \/ \E p \in Passwords : SetupMasterPassword(p, {})
    \/ \E p \in Passwords : Login(p)
    \/ Logout
    \/ ResetVaultOfStorageTs
    \/ \E t \in Titles : AddPassword(t, {})
    \/ \E i \in 1..MaxAdds : DeletePassword(i, {})

SpecStorageTs == Init /\ [][NextStorageTs]_vars

\* a browser without stored data in which the page has just been constructed
InitStartup ==
    /\ ls = [vault_master_hash |-> NoItem,
             vault_passwords |-> NoItem,
             vault_security_questions |-> NoItem]
    /\ masterPassword = NULL
    /\ isAuthenticated = FALSE
    /\ passwords = <<>>
    /\ nextId = 0
    /\ showRecovery = FALSE
    /\ step = "questions"
    /\ answers = <<>>
    /\ error = NULL
    /\ newPassword = ""
    /\ confirmPassword = ""
    /\ securityQuestions = NoItem
    /\ last = Call("constructor", TRUE, NULL, NULL, <<>>)
    /\ prev = NoCall
    /\ db = NoItem
    /\ idb = NoItem
    /\ syncStorage = [sync_db_data |-> NoItem, sync_db_timestamp |-> FALSE]
    /\ backup = NoItem
    /\ pending = [slot \in Slots |-> Idle]
    /\ initialized = FALSE
    /\ initializationPromise = "pending"
    /\ initCalls = 1
    /\ ensuring = {}
    /\ isReady = FALSE
    /\ storageError = FALSE
    /\ lastSyncTimestamp = "current"
    /\ idbRequests = <<>>
    /\ autoLockEnabled = TRUE

\* page loads, initialization with its failures, ensureDbReady() callers, and
\* a stored master hash as content
NextStartup ==
    \/ Construct
    \/ \E fail \in InitFailures : InitDatabaseSettles(fail)
    \/ \E caller \in Callers : EnsureDbReady(caller)
    \/ \E caller \in Callers : EnsureDbReadyResumes(caller)
    \/ \E p \in Passwords :
            /\ initializationPromise = "resolved"
            /\ StoreMasterPasswordHash(p, "none", "none")
    \/ CorruptSnapshot

SpecStartup == InitStartup /\ [][NextStartup]_vars

(***************************************************************************)
(* Properties                                                              *)
(***************************************************************************)
Hash == ls.vault_master_hash
Blob == ls.vault_passwords

\* C1: after setupMasterPassword(P) succeeded and logout() was called, login(P)
\* succeeds and sets isAuthenticated, and login(Q) for Q # P returns failure and
\* leaves isAuthenticated false and no master password in memory.
C1_SetupLogoutLogin ==
    [][(/\ last'.op = "login"
        /\ last.op = "logout"
        /\ prev.op = "setupMasterPassword"
        /\ prev.ok)
       => IF last'.a1 = prev.a1
          THEN last'.ok /\ isAuthenticated'
          ELSE ~last'.ok /\ ~isAuthenticated' /\ masterPassword' = NULL]_vars

C1_Witness ==
    /\ last.op = "login"
    /\ last.ok
    /\ prev.op = "setupMasterPassword"
    /\ prev.ok
    /\ last.a1 = prev.a1
    /\ isAuthenticated

\* C2: a collection stored under P_old (non-empty: a credential was added) is,
\* after updateMasterPassword(P_old, P_new) succeeded, logout() and
\* login(P_new), the credential list again, entry for entry; login(P_old)
\* then fails.
C2_RotationPreservesData ==
    [][(/\ last'.op = "login"
        /\ last.op \in {"logout", "login"}
        /\ prev.op = "updateMasterPassword"
        /\ prev.ok
        /\ prev.a1 # prev.a2)
       => /\ last'.a1 = prev.a2 => last'.ok /\ passwords' = prev.seen
          /\ last'.a1 = prev.a1 => ~last'.ok]_vars

C2_Witness ==
    /\ last.op = "login"
    /\ last.ok
    /\ prev.op = "updateMasterPassword"
    /\ prev.ok
    /\ prev.a1 # prev.a2
    /\ last.a1 = prev.a2
    /\ Len(prev.seen) > 0
    /\ passwords = prev.seen

\* C3: updateMasterPassword(current, new) whose current password does not
\* verify against the stored hash returns failure and leaves the stored hash,
\* blob and security questions and the in-memory master password unchanged.
C3_WrongCurrentPasswordChangesNothing ==
    [][(/\ last'.op = "updateMasterPassword"
        /\ ~verifyMasterPassword(last'.a1, Hash))
       => /\ ~last'.ok
          /\ ls' = ls
          /\ masterPassword' = masterPassword]_vars

C3_Witness ==
    /\ last.op = "updateMasterPassword"
    /\ ~last.ok
    /\ Hash # NoItem
    /\ ~verifyMasterPassword(last.a1, Hash)
    /\ Blob # NoItem
    /\ Len(StoredList(ls, masterPassword)) > 0
    /\ hasSecurityQuestions(ls)
    /\ masterPassword # NULL

\* the recovery answers match the stored ones, position by position, after
\* lower-casing and trimming both
AnswersMatch(questions, arr) ==
    /\ Len(arr) = Len(questions)
    /\ \A i \in 1..Len(questions) :
          /\ arr[i].kind = "string"
          /\ trim(toLowerCase(arr[i].chars)) = trim(toLowerCase(questions[i].answer))

\* C4: resetPasswordWithSecurityQuestions replaces the stored hash only when
\* security questions are stored and the answers given match all of them;
\* otherwise the stored hash and the session stay as they were.
C4_ResetOnlyWithMatchingAnswers ==
    [][(/\ last'.op = "resetPasswordWithSecurityQuestions"
        /\ hasMasterPasswordSetup(ls)
        /\ ~(/\ hasSecurityQuestions(ls)
              /\ AnswersMatch(getSecurityQuestions(ls).value, answers)))
       => /\ Hash' = Hash
          /\ masterPassword' = masterPassword
          /\ isAuthenticated' = isAuthenticated]_vars

\* C5: the recovery step becomes 'new-password' only when every answer matches;
\* on a mismatch the step stays 'questions', an error is set, the answers are
\* kept and neither storage nor session changes.
C5_QuestionsStep ==
    [][last'.op = "handleQuestionsSubmit"
       => /\ step' # step => AnswersMatch(securityQuestions.value, answers)
          /\ ~AnswersMatch(securityQuestions.value, answers)
             => /\ step' = "questions"
                /\ error' # NULL
                /\ answers' = answers
                /\ ls' = ls
                /\ masterPassword' = masterPassword
                /\ isAuthenticated' = isAuthenticated]_vars

\* C6: when resetPasswordWithSecurityQuestions(N) succeeds and the stored blob
\* cannot be decrypted, the stored blob has become the encryption of the empty
\* collection under N.
C6_UnreadableCollectionReset ==
    [][(/\ last'.op = "resetPasswordWithSecurityQuestions"
        /\ last'.ok
        /\ Blob # NoItem
        /\ Blob.key # PBKDF2(last'.a1, "vault-keeper-salt"))
       => Blob' = encryptData(JSONstringify(<<>>), last'.a1)]_vars

\* C7: once the questions step has passed and a valid new password N is
\* submitted, the reset succeeds and isAuthenticated becomes true; after a
\* later logout(), login(N) succeeds and login with the previous master
\* password (when it differs from N) fails.
C7_RecoveryGivesAccess ==
    [][/\ (/\ last'.op = "handlePasswordSubmit"
            /\ passwordFieldsError(newPassword, confirmPassword) = NULL)
           => /\ last'.ok
              /\ isAuthenticated'
              /\ masterPassword' = newPassword
       /\ (/\ last'.op = "login"
            /\ last.op \in {"logout", "login"}
            /\ prev.op = "handlePasswordSubmit"
            /\ prev.ok)
           => /\ last'.a1 = prev.a1 => last'.ok /\ isAuthenticated'
              /\ (last'.a1 = prev.a2 /\ prev.a2 # prev.a1) => ~last'.ok]_vars

C7_Witness ==
    /\ last.op = "login"
    /\ last.ok
    /\ isAuthenticated
    /\ prev.op = "handlePasswordSubmit"
    /\ prev.ok
    /\ prev.a2 # prev.a1
    /\ last.a1 = prev.a1

\* C8: updateMasterPassword on a stored blob that cannot be decrypted under the
\* old key returns failure, stores no new hash and does not overwrite the blob.
C8_RotationNeedsReadableCollection ==
    [][(/\ last'.op = "updateMasterPassword"
        /\ Blob # NoItem
        /\ Blob.key # PBKDF2(last'.a1, "vault-keeper-salt"))
       => ~last'.ok /\ ls' = ls]_vars

\* C9: whenever updateMasterPassword returns success, the new hash is stored
\* and the stored blob is the collection held before the call (one readable
\* under the old password, or none), encrypted under the new password.
C9_SuccessfulRotationIsComplete ==
    [][(/\ last'.op = "updateMasterPassword"
        /\ last'.ok
        /\ (Blob = NoItem \/ Blob.key = PBKDF2(last'.a1, "vault-keeper-salt")))
       => /\ Hash' = hashMasterPassword(last'.a2)
          /\ Blob' = encryptData(JSONstringify(last'.seen), last'.a2)]_vars

\* C10: getPasswords signals a blob it cannot decrypt as an error; it never
\* answers with the empty list it gives for a vault with no stored blob.
C10_DecryptFailureSignalled ==
    (/\ masterPassword # NULL
     /\ Blob # NoItem
     /\ Blob.key # PBKDF2(masterPassword, "vault-keeper-salt"))
    => \A r \in getPasswords(ls, masterPassword) : r.threw

C12_SetupOnlyOnce ==
    [][(/\ last'.op = "setupMasterPassword"
        /\ hasMasterPasswordSetup(ls))
       => /\ ~last'.ok
          /\ Hash' = Hash
          /\ Blob' = Blob]_vars

\* the forms a persisted value takes when it does not expose the master
\* password: absent, a PBKDF2 digest, an AES ciphertext under a derived key, or
\* the JSON of the security questions
Concealing(item) ==
    \/ item = NoItem
    \/ item.kind = "pbkdf2"
    \/ item.kind = "aes" /\ item.key.kind = "pbkdf2"
    \/ item.kind = "json"

C19_LoginWithoutVault ==
    [][/\ (last'.op = "login" /\ Hash = NoItem)
          => /\ ~last'.ok
             /\ ~isAuthenticated'
             /\ masterPassword' = NULL
             /\ last'.a2 = "No vault found. Please set up a master password first."
       /\ (last'.op = "login" /\ Hash # NoItem /\ ~last'.ok)
          => last'.a2 # "No vault found. Please set up a master password first."]_vars

\* a login refused on a vault that was reset
C19_Witness ==
    /\ last.op = "login"
    /\ ~last.ok
    /\ Hash = NoItem
    /\ nextId > 0
    /\ last.a2 = "No vault found. Please set up a master password first."

\* C20: logout() leaves no master password in memory, isAuthenticated false
\* and the in-memory credential list empty, changes nothing in the persisted
\* store, and a second logout() in a row changes nothing at all.
C20_LogoutIdempotent ==
    [][/\ last'.op = "logout"
          => /\ masterPassword' = NULL
             /\ ~isAuthenticated'
             /\ passwords' = <<>>
             /\ ls' = ls
       /\ (last.op = "logout" /\ last'.op = "logout")
          => /\ UNCHANGED authVars
             /\ UNCHANGED recoveryVars]_vars

\* two logouts in a row on a vault that holds credentials
C20_Witness ==
    /\ last.op = "logout"
    /\ prev.op = "logout"
    /\ Hash # NoItem
    /\ Len(StoredList(ls, PasswordOf(Hash))) > 0

\* the SQLiteStorage operations that change the database
Mutators ==
    {"storeMasterPasswordHash", "saveSecurityQuestions", "savePasswords",
     "resetVault", "importDatabase"}

\* C14: whenever storeMasterPasswordHash, saveSecurityQuestions, savePasswords,
\* resetVault or importDatabase returns successfully, the durable snapshot (the
\* file in IndexedDB) equals the export of the in-memory database, whichever
\* durable writes failed.
C14_SuccessMeansPersisted ==
    [][(last'.op \in Mutators /\ last'.ok)
       => idb' = exportDatabase(db')]_vars

\* C15: a page reload that follows a mutating operation which returned
\* successfully (and left the right file in IndexedDB) loads the database as
\* it was at that return, whichever sync storage writes failed.
C15_ReloadLoadsLastSuccess ==
    [][(/\ last'.op = "initDatabase"
        /\ last.op \in Mutators
        /\ last.ok
        /\ idb = exportDatabase(db))
       => Stored(db') = Stored(db)]_vars

\* C16: importDatabase of bytes that are no snapshot returns failure and leaves
\* the in-memory database and the durable stores as they were.
C16_InvalidImportRejected ==
    [][(last'.op = "importDatabase" /\ last'.a1 = "invalid")
       => /\ ~last'.ok
          /\ db' = db
          /\ idb' = idb
          /\ syncStorage' = syncStorage]_vars

C18_OverlappingMutationsBothKept ==
    (/\ \A slot \in Slots : /\ pending[slot].phase = "returned"
                            /\ pending[slot].ok
                            /\ pending[slot].overlapped
     /\ pending[1].id # pending[2].id)
    => \A slot \in Slots : /\ Reflects(pending[slot], passwords)
                           /\ Reflects(pending[slot], SQLiteStoredList(db))

\* C21: when the stored snapshot is corrupted, initialization (with nothing
\* else failing) leaves a fresh empty database with both tables.
C21_CorruptSnapshotFallsBack ==
    [][(last'.op = "initDatabase" /\ last'.a1 = "none" /\ idb = InvalidBytes)
       => db' = EmptyDatabase]_vars

C23_ReadyOnlyWhenInitialized ==
    isReady => initialized /\ db # NoItem

\* C24: a submit of the new-password form whose password is shorter than 8
\* characters or differs from its confirmation sets an error, stays on the
\* new-password step and leaves the stored items, the in-memory password, the
\* session and the credential list as they were.
C24_InvalidNewPasswordRejected ==
    [][(/\ last'.op = "handlePasswordSubmit"
        /\ Len(newPassword) < 8 \/ newPassword # confirmPassword)
       => /\ ~last'.ok
          /\ error' \in {"Password must be at least 8 characters",
                         "Passwords do not match"}
          /\ step' = "new-password"
          /\ showRecovery'
          /\ ls' = ls
          /\ masterPassword' = masterPassword
          /\ isAuthenticated' = isAuthenticated
          /\ passwords' = passwords]_vars

\* a long enough password with a different confirmation was submitted
C24_Witness ==
    /\ last.op = "handlePasswordSubmit"
    /\ ~last.ok
    /\ Len(newPassword) >= 8
    /\ newPassword # confirmPassword
    /\ error = "Passwords do not match"
    /\ step = "new-password"
    /\ ls.vault_master_hash # NoItem

\* C25: a stored security-questions item holds exactly the full number of
\* question/answer pairs (MaxQuestions here, 5 in the form).
C25_StoredQuestionsComplete ==
    ls.vault_security_questions # NoItem
    => Len(ls.vault_security_questions.value) = MaxQuestions

\* C26: after setupMasterPassword succeeds on a vault with no hash and no
\* questions, getPasswords() returns the empty list, hasMasterPasswordSetup()
\* is true and hasSecurityQuestions() is false; and hasSecurityQuestions()
\* becomes true only by a setupSecurityQuestions call that succeeds.
C26_FreshVaultAfterSetup ==
    [][/\ (/\ last'.op = "setupMasterPassword"
           /\ last'.ok
           /\ ~hasMasterPasswordSetup(ls)
           /\ ~hasSecurityQuestions(ls))
          => /\ getPasswords(ls', masterPassword') = {[threw |-> FALSE, value |-> <<>>]}
             /\ passwords' = <<>>
             /\ hasMasterPasswordSetup(ls')
             /\ ~hasSecurityQuestions(ls')
       /\ (~hasSecurityQuestions(ls) /\ hasSecurityQuestions(ls'))
          => (last'.op = "setupSecurityQuestions" /\ last'.ok)]_vars

\* a vault set up from nothing, with its questions stored afterwards
C26_Witness ==
    /\ last.op = "setupSecurityQuestions"
    /\ last.ok
    /\ hasMasterPasswordSetup(ls)
    /\ hasSecurityQuestions(ls)
    /\ isAuthenticated
    /\ getPasswords(ls, masterPassword) = {[threw |-> FALSE, value |-> <<>>]}

DistinctIds(list) ==
    \A i, j \in 1..Len(list) : i # j => list[i].id # list[j].id

\* C27: the ids of the entries of the credential collection, in memory and
\* in the stored blob, are pairwise distinct.
C27_IdsDistinct ==
    /\ DistinctIds(passwords)
    /\ masterPassword # NULL => DistinctIds(StoredList(ls, masterPassword))

\* two entries are held and one of them has just been updated
C27_Witness ==
    /\ last.op = "updatePassword"
    /\ last.ok
    /\ Len(passwords) = 2
    /\ Len(StoredList(ls, masterPassword)) = 2

\* C28: on an opened database, storing a value for a setting key makes a read
\* of that key return the value, whatever was stored before, and changes
\* neither the other setting nor the credential blob; savePasswords changes
\* no setting.
C28_SettingsUpsert ==
    [][/\ (last'.op = "storeMasterPasswordHash" /\ db.kind = "db")
          => /\ getSettingValue(db', "master_hash") = hashMasterPassword(last'.a1)
             /\ getSettingValue(db', "security_questions")
                    = getSettingValue(db, "security_questions")
             /\ db'.passwords = db.passwords
       /\ (last'.op = "saveSecurityQuestions" /\ db.kind = "db")
          => /\ getSettingValue(db', "security_questions") = JSONstringify(last'.seen)
             /\ getSettingValue(db', "master_hash") = getSettingValue(db, "master_hash")
             /\ db'.passwords = db.passwords
       /\ (last'.op = "savePasswords" /\ db.kind = "db")
          => /\ getSettingValue(db', "master_hash") = getSettingValue(db, "master_hash")
             /\ getSettingValue(db', "security_questions")
                    = getSettingValue(db, "security_questions")]_vars

\* a master hash was stored over a different one while questions and a
\* credential blob were held
C28_Witness ==
    /\ last.op = "storeMasterPasswordHash"
    /\ getSettingValue(db, "master_hash") = hashMasterPassword("Hunter2hunter")
    /\ getSettingValue(db, "security_questions") # NoItem
    /\ db.passwords # NoItem
    /\ backup # NoItem
    /\ backup.seen[1] = hashMasterPassword("Secret123!")
    /\ backup.seen[2] = getSettingValue(db, "security_questions")
    /\ backup.seen[3] = db.passwords

\* C30: a login with the old master password that follows the first start of
\* the SQLite version lists the credentials the localStorage version had saved.
C30_MigrationKeepsCredentials ==
    [][(/\ last.op = "migrateFromLocalStorage"
        /\ last'.op = "login"
        /\ last'.a2 = "sqlite"
        /\ last'.ok)
       => passwords' = last'.seen]_vars

\* a stored value that can be read without the master password
Readable(item) ==
    /\ item # NoItem
    /\ item.kind \notin {"aes", "pbkdf2"}

\* C29: in the stored database file nothing but the verification hash is kept
\* unencrypted: the security questions with their answers and the credential
\* blob are ciphertexts under the master password.
C29_SnapshotEncrypted ==
    idb.kind = "sqlite"
    => /\ ~Readable(idb.master_hash)
       /\ ~Readable(idb.security_questions)
       /\ ~Readable(idb.passwords)

\* C40: after resetVault() of the localStorage backend of storage.ts,
\* getMasterPasswordHash() is null and hasMasterPasswordSetup() is false.
C40_StorageTsResetDeletesHash ==
    [][(last'.op = "resetVault" /\ last'.a1 = "storage.ts")
       => /\ getMasterPasswordHash(ls') = NoItem
          /\ ~hasMasterPasswordSetup(ls')]_vars

\* C32: whenever a master hash and a credential blob are both stored, the
\* blob decrypts under the password whose hash is stored.
C32_BlobMatchesHash ==
    (Hash # NoItem /\ Blob # NoItem)
    => Blob.key = PBKDF2(PasswordOf(Hash), "vault-keeper-salt")

\* C34: isAuthenticated is true exactly when the storage service holds a
\* master password.
C34_AuthenticatedIffPasswordHeld ==
    isAuthenticated <=> masterPassword # NULL

\* logged out again after a session: both are cleared
C34_Witness ==
    /\ last.op \in {"logout", "resetVault"}
    /\ prev.op \in {"login", "updateMasterPassword",
                    "resetPasswordWithSecurityQuestions", "setupMasterPassword"}
    /\ ~isAuthenticated
    /\ masterPassword = NULL

\* C35: a setupMasterPassword or resetPasswordWithSecurityQuestions call that
\* returns failure leaves the stored master hash as it was.
C35_FailedCallKeepsHash ==
    [][(/\ last'.op \in {"setupMasterPassword", "resetPasswordWithSecurityQuestions"}
        /\ ~last'.ok)
       => Hash' = Hash]_vars

\* a reset failed on a vault that has a master hash
C35_Witness ==
    /\ last.op = "resetPasswordWithSecurityQuestions"
    /\ ~last.ok
    /\ Hash # NoItem
    /\ PasswordOf(Hash) # last.a1

\* PasswordContext.tsx: the list shown equals what getPasswords() reads back
ListMatchesStore(list, store, mp) ==
    \A got \in getPasswords(store, mp) : ~got.threw /\ got.value = list

\* C38: after every completed addPassword, updatePassword or deletePassword
\* of an open session the in-memory list equals the decrypted stored blob,
\* and a call that returns false leaves the in-memory list unchanged.
C38_ListEqualsStoredBlob ==
    [][(/\ last'.op \in {"addPassword", "updatePassword", "deletePassword"}
        /\ isAuthenticated)
       => /\ ListMatchesStore(passwords', ls', masterPassword')
          /\ (~last'.ok => passwords' = passwords)]_vars

\* the entries of a list other than the one with the given id
Others(list, id) == SelectSeq(list, LAMBDA e : e.id # id)

\* C39: updatePassword(id) and deletePassword(id) affect only the entry with
\* that id: for an absent id they return false and leave the in-memory list
\* and the store unchanged; for a present id every other entry of the list,
\* and of the collection written, is unchanged.
C39_OnlyThatEntryAffected ==
    [][last'.op \in {"updatePassword", "deletePassword"}
       => /\ IndexOfId(passwords, last'.a1) = 0
             => ~last'.ok /\ ls' = ls /\ passwords' = passwords
          /\ Others(passwords', last'.a1) = Others(passwords, last'.a1)
          /\ last'.ok
             => Others(StoredList(ls', masterPassword'), last'.a1)
                  = Others(passwords, last'.a1)
          /\ ~last'.ok => ls' = ls]_vars

\* an entry was deleted from a list of two and the other one remains
C39_Witness ==
    /\ last.op = "deletePassword"
    /\ last.ok
    /\ Len(passwords) = 1
    /\ passwords[1].id # last.a1
    /\ StoredList(ls, masterPassword) = passwords

(***************************************************************************)
(* The session kept by AuthContext when storageService delegates to        *)
(* sqliteStorageService (storage.ts, second half)                          *)
(***************************************************************************)
\* setupMasterPassword: hash stored, master password set, empty list saved,
\* isAuthenticated set; the PasswordProvider loads the list when the flag rose
SQLiteSetupMasterPassword(password) ==
    LET stored == SQLite_storeMasterPasswordHash(
                      SQLite, hashMasterPassword(password), "none", "none")
        saved == SQLite_savePasswords(
                      [stored.D EXCEPT !.masterPassword = password], <<>>, "none")
    IN  /\ db' = saved.D.db
        /\ idb' = saved.D.idb
        /\ syncStorage' = saved.D.sync
        /\ lastSyncTimestamp' = saved.D.lastSyncTimestamp
        /\ masterPassword' = password
        /\ isAuthenticated' = TRUE
        /\ passwords' = IF isAuthenticated THEN passwords
                        ELSE SQLite_getPasswords(saved.D.db, password)
        /\ UNCHANGED <<ls, nextId, backup, pending>>
        /\ UNCHANGED <<startupVars, pageVars>>
        /\ UNCHANGED recoveryVars
        /\ Observe(Call("setupMasterPassword", TRUE, password, "sqlite", <<>>))

\* resetVault: the database is emptied and the session closed
SQLiteSessionResetVault ==
    LET D == SQLite_resetVault(SQLite, "none")
    IN  /\ db' = D.db
        /\ idb' = D.idb
        /\ syncStorage' = D.sync
        /\ lastSyncTimestamp' = D.lastSyncTimestamp
        /\ masterPassword' = NULL
        /\ isAuthenticated' = FALSE
        /\ passwords' = <<>>
        /\ UNCHANGED <<ls, nextId, backup, pending>>
        /\ UNCHANGED <<startupVars, pageVars>>
        /\ UNCHANGED recoveryVars
        /\ Observe(Call("resetVault", TRUE, "sqlite", NULL, <<>>))

\* the hash the database holds verifies the password held in memory
SessionVerifies ==
    LET hash == getSettingValue(db, "master_hash")
    IN  hash # NoItem /\ verifyMasterPassword(masterPassword, hash)

NextSQLiteSession ==
    \/ \E p \in Passwords : SQLiteSetupMasterPassword(p)
    \/ \E p \in Passwords : SQLiteLogin(p)
    \/ Logout
    \/ SQLiteSessionResetVault
    \/ \E l \in StoreLists : isAuthenticated /\ SavePasswords(l, "none")
    \/ ExportDatabase
    \/ ImportDatabase("backup", "none")

SpecSQLiteSession == Init /\ [][NextSQLiteSession]_vars

\* C33: whenever isAuthenticated is true the in-memory master password
\* verifies against the stored master hash, also after importDatabase has
\* replaced the database during the session.
C33_SessionPasswordVerifies ==
    isAuthenticated => SessionVerifies

(***************************************************************************)
(* SQLiteStorage.syncWithServer (sqliteStorage.ts, second class)           *)
(***************************************************************************)
\* loadFromSyncStorage(): data only when both items are set
loadFromSyncStorage(D) ==
    IF D.sync.sync_db_data # NoItem /\ D.sync.sync_db_timestamp
    THEN [data |-> D.sync.sync_db_data, newer |-> D.lastSyncTimestamp = "behind"]
    ELSE [data |-> NoItem, newer |-> FALSE]

\* syncWithServer(): [ret, D].  The local database is pushed when sync
\* storage holds nothing or nothing newer than lastSyncTimestamp; otherwise
\* the database is replaced by the one in sync storage and saved to IndexedDB.
syncWithServer(D, fail) ==
    LET syncData == loadFromSyncStorage(D)
    IN  IF D.db # NoItem /\ (syncData.data = NoItem \/ ~syncData.newer)
        THEN [ret |-> TRUE, D |-> saveToSyncStorage(D, fail).D]
        ELSE IF syncData.data # NoItem /\ syncData.newer
        THEN LET saved == saveToIndexedDB(
                              [D EXCEPT !.db = NewDatabase(syncData.data),
                                        !.lastSyncTimestamp = "current"], fail)
             IN  [ret |-> ~saved.threw, D |-> saved.D]
        ELSE [ret |-> TRUE, D |-> D]

SyncWithServer(fail) ==
    LET r == syncWithServer(SQLite, fail)
    IN  /\ ApplySQLite(r.D)
        /\ UNCHANGED backup
        /\ Observe(Call("syncWithServer", r.ret, fail, NULL, <<>>))

\* one tab: mutations whose write to sync storage may fail, periodic syncs,
\* page reloads
SyncFailures == {"none", "sync_db_data"}

NextSync ==
    \/ SetMasterPassword("Secret123!")
    \/ \E p \in Passwords, f \in SyncFailures : StoreMasterPasswordHash(p, f, f)
    \/ \E l \in StoreLists, f \in SyncFailures : SavePasswords(l, f)
    \/ \E f \in SyncFailures : SyncWithServer(f)
    \/ Reload("none")

SpecSync == Init /\ [][NextSync]_vars

\* C36: a sync never discards what operations that had returned success
\* wrote: when the in-memory database and the IndexedDB snapshot agree
\* before a syncWithServer step, both still give the same master hash,
\* security questions and credential blob after it.
C36_SyncKeepsWrittenValues ==
    [][(last'.op = "syncWithServer" /\ idb = exportDatabase(db))
       => /\ Stored(db') = Stored(db)
          /\ Stored(NewDatabase(idb')) = Stored(db)]_vars

(***************************************************************************)
(* Overlapping persistChanges() runs (part_010; saveDatabaseToStorage of   *)
(* sqliteStorage.ts).  A mutating operation changes the in-memory database *)
(* and, in the same turn, saveToIndexedDB() exports it and asks IndexedDB  *)
(* to open the store; the put happens when the open succeeded.  IndexedDB  *)
(* serves the open requests on one database, and the readwrite             *)
(* transactions on one object store, in the order they were made.          *)
(***************************************************************************)
MaxRequests == 2

\* saveToIndexedDB() up to indexedDB.open(): the export waits in the queue
saveToIndexedDBBegins(database) ==
    Append([i \in 1..Len(idbRequests) |-> [idbRequests[i] EXCEPT !.overlapped = TRUE]],
           [data |-> exportDatabase(database), overlapped |-> idbRequests # <<>>])

PersistFrame ==
    /\ UNCHANGED <<ls, masterPassword, isAuthenticated, passwords, nextId>>
    /\ UNCHANGED <<syncStorage, lastSyncTimestamp, backup, pending, autoLockEnabled>>
    /\ UNCHANGED startupVars
    /\ UNCHANGED recoveryVars

\* setSettingValue(key, value): db.run(INSERT OR REPLACE ...), then
\* persistChanges() starts
SetSettingValueBegins(key, value) ==
    /\ Len(idbRequests) < MaxRequests
    /\ db.kind = "db"
    /\ db' = [db EXCEPT ![key] = value]
    /\ idbRequests' = saveToIndexedDBBegins(db')
    /\ UNCHANGED idb
    /\ PersistFrame
    /\ Observe(Call("setSettingValue", TRUE, key, NULL, <<>>))

\* faulty variant: the request made last is served first
PutSucceedsOutOfOrder ==
    /\ idbRequests # <<>>
    /\ idb' = idbRequests[Len(idbRequests)].data
    /\ idbRequests' = SubSeq(idbRequests, 1, Len(idbRequests) - 1)
    /\ UNCHANGED db
    /\ PersistFrame
    /\ Observe(Call("put", TRUE, idbRequests[Len(idbRequests)].overlapped, NULL, <<>>))

\* putRequest.onsuccess of the oldest request: the export it carries becomes
\* the stored file and its persistChanges() run completes
PutSucceeds ==
    /\ idbRequests # <<>>
    /\ idb' = Head(idbRequests).data
    /\ idbRequests' = Tail(idbRequests)
    /\ UNCHANGED db
    /\ PersistFrame
    /\ Observe(Call("put", TRUE, Head(idbRequests).overlapped, NULL, <<>>))

NextPersist ==
    \/ \E p \in Passwords :
          SetSettingValueBegins("master_hash", hashMasterPassword(p))
    \/ \E q \in QuestionLists :
          SetSettingValueBegins("security_questions", JSONstringify(q))
    \/ PutSucceeds

SpecPersist == Init /\ [][NextPersist]_vars

SettingsFrame ==
    /\ UNCHANGED <<ls, masterPassword, isAuthenticated, passwords, nextId>>
    /\ UNCHANGED <<db, idb, syncStorage, lastSyncTimestamp, backup, pending,
                   idbRequests>>
    /\ UNCHANGED startupVars
    /\ UNCHANGED recoveryVars

\* the settings page is opened: useState(true)
OpenSecuritySettings ==
    /\ isAuthenticated
    /\ autoLockEnabled' = TRUE
    /\ SettingsFrame
    /\ Observe(Call("SecuritySettings", TRUE, NULL, NULL, <<>>))

\* onCheckedChange={setAutoLockEnabled}
setAutoLockEnabled(checked) ==
    /\ isAuthenticated
    /\ autoLockEnabled' = checked
    /\ SettingsFrame
    /\ Observe(Call("setAutoLockEnabled", TRUE, checked, NULL, <<>>))

\* five minutes pass in an open session without any user action: no
\* callback of the application is due, so no state changes
Inactivity ==
    /\ isAuthenticated
    /\ UNCHANGED autoLockEnabled
    /\ SettingsFrame
    /\ Observe(Call("inactivity", TRUE, NULL, NULL, <<>>))

NextAutoLock ==
    \/ \E p \in Passwords : SetupMasterPassword(p, {})
    \/ \E p \in Passwords : Login(p)
    \/ Logout
    \/ \E t \in Titles : AddPassword(t, {})
    \/ OpenSecuritySettings
    \/ \E checked \in BOOLEAN : setAutoLockEnabled(checked)
    \/ Inactivity

\* time passes whatever the user does; the user's own actions are not forced
SpecAutoLock == Init /\ [][NextAutoLock]_vars /\ WF_vars(Inactivity)

\* C31: with auto-lock enabled and the vault unlocked, a period of inactivity
\* is eventually followed by the vault being locked without a logout by the
\* user: the master password cleared and isAuthenticated false.
C31_InactivityLocks ==
    (isAuthenticated /\ autoLockEnabled /\ last.op = "inactivity")
        ~> (~isAuthenticated /\ masterPassword = NULL /\ last.op # "logout")

====
